---- MODULE Spec2Model ----
(***************************************************************************)
(* A model of the tagmu store (src/src/store.rs, src/src/id.rs): four      *)
(* ordered key-value trees (the tag catalog in both directions, the        *)
(* forward and the reverse tag index), the identifier allocator, the       *)
(* fixed-width big-endian codec and the prefix-scan query iterators.       *)
(*                                                                         *)
(* Keys and values are byte sequences.  An identifier is IdBytes bytes     *)
(* wide as in the source; the alphabet of a byte is 0..ByteBase-1, which   *)
(* is 0..255 in the source and is kept small here.                         *)
(***************************************************************************)
EXTENDS Integers, Sequences, FiniteSets, TLC

\* ------------------------------------------------------------------ bounds

\* Number of values a byte can take (256 in the program).
ByteBase == 2

\* The allocator is not asked for an identifier once it has reached MaxId.
MaxId == 2

\* No pairing is added to an index that already holds MaxPairs pairings.
MaxPairs == 3

\* Across reopenings of the store the allocator is not asked for an identifier
\* once it has reached MaxDurableId.
MaxDurableId == 12

\* sled persists the identifier counter once every this many identifiers.
IdgenPersistInterval == 2

\* ------------------------------------------------------- program constants

\* [u8; 8]: the width of an encoded identifier.
IdBytes == 8

\* [u8; 16]: the width of a compound key.
KeyBytes == 16

\* The largest identifier: every byte at its maximum (u64::MAX).
MaxU64 == ByteBase ^ IdBytes - 1

\* ------------------------------------------------------------------ inputs

\* Tag names, as the bytes of their UTF-8 text (str::as_bytes is a view of
\* those bytes).
Names == { <<1>>, <<1, 0>> }

\* Item identifiers handed to the operations.  1 and ByteBase differ in which
\* byte is set, so their byte order and their numeric order can disagree.
Items == { 1, ByteBase }

\* Tag identifiers handed to the operations that take one from the caller.
Tags == { 1, MaxU64 }

\* Tag identifiers handed to update_tag.
UpdatedTags == { 1 }

\* The callers of the store whose calls proceed one tree operation at a time:
\* two for the calls that run concurrently, one for the single writer.
Writers == { "w1", "w2" }

Writer == { "w1" }

\* Item identifiers handed to the calls that run concurrently.
RacedItems == { 1 }

\* Tag identifiers handed to remove_tag: those handed to tag and the first
\* one the allocator gives out.
RemovedTags == Tags \cup { 0 }

\* ------------------------------------------------------------------- state

VARIABLES
    tag_id_names,       \* tree: encoded tag id -> name bytes
    tag_name_ids,       \* tree: name bytes -> encoded tag id
    tag_items,          \* tree: tag id || item id -> empty value
    item_tags,          \* tree: item id || tag id -> empty value
    idgen,              \* sled: the next identifier generate_id returns
    idgen_persisted,    \* sled: the counter value last written to disk
    returned,           \* history: every identifier id() has returned
    last,               \* history: the last completed call and its result
    calls,              \* per writer: the call in flight and its position
    overlapped,         \* history: what two calls in flight have met on
    removed_tags        \* history: the (id, name) pairs remove_tag has removed

vars == << tag_id_names, tag_name_ids, tag_items, item_tags,
           idgen, idgen_persisted, returned, last, calls, overlapped,
           removed_tags >>

\* ------------------------------------------------------------ id.rs: codec

\* The big-endian bytes of every u64, most significant byte first.
BeBytes ==
    [n \in 0..MaxU64 |->
        [i \in 1..IdBytes |-> (n \div (ByteBase ^ (IdBytes - i))) % ByteBase]]

\* u64::to_be_bytes.
to_be_bytes(n) == BeBytes[n]

\* u64::from_be_bytes.
RECURSIVE from_be_bytes(_)
from_be_bytes(bytes) ==
    IF Len(bytes) = 0 THEN 0
    ELSE from_be_bytes(SubSeq(bytes, 1, Len(bytes) - 1)) * ByteBase
         + bytes[Len(bytes)]

\* $id::to_bytes.
to_bytes(id) == to_be_bytes(id)

\* u64::from_le_bytes: least significant byte first.
RECURSIVE from_le_bytes(_)
from_le_bytes(bytes) ==
    IF Len(bytes) = 0 THEN 0
    ELSE bytes[1] + ByteBase * from_le_bytes(SubSeq(bytes, 2, Len(bytes)))

\* impl From<[u8; 8]> for $id.
from_bytes(bytes) == from_be_bytes(bytes)

\* ------------------------------------------------- sled: an ordered tree

\* Byte-lexicographic order on keys, the order sled keeps a tree in.
LexLess(a, b) ==
    \E i \in 1..(Len(a) + 1) :
        /\ i <= Len(b)
        /\ \A j \in 1..(i - 1) : a[j] = b[j]
        /\ (i <= Len(a) => a[i] < b[i])

\* The keys of S in ascending byte order.
RECURSIVE SortKeys(_)
SortKeys(S) ==
    IF S = {} THEN << >>
    ELSE LET m == CHOOSE x \in S : \A y \in S \ {x} : LexLess(x, y)
         IN  << m >> \o SortKeys(S \ {m})

\* Tree::get: the value under key, as an option ({} is None, {v} is Some(v)).
get(tree, key) == IF key \in DOMAIN tree THEN { tree[key] } ELSE {}

\* Tree::insert: the tree with key bound to value (an old value is replaced).
insert(tree, key, value) ==
    [k \in DOMAIN tree \cup {key} |-> IF k = key THEN value ELSE tree[k]]

\* Tree::remove: the tree without key.
remove(tree, key) == [k \in DOMAIN tree \ {key} |-> tree[k]]

\* Whether key starts with prefix.
starts_with(key, prefix) ==
    /\ Len(prefix) <= Len(key)
    /\ \A j \in 1..Len(prefix) : key[j] = prefix[j]

\* Tree::scan_prefix: the keys that start with prefix, in ascending byte order.
scan_prefix(tree, prefix) ==
    SortKeys({ k \in DOMAIN tree : starts_with(k, prefix) })

\* ------------------------------------------------------ store.rs: helpers

\* A Result<T>: res is "Ok" or the name of the Error variant, val the payload
\* (the NotFound key, the decoded bytes); NoVal where there is none.
NoVal == << >>

\* compound_key: the bytes of a followed by the bytes of b.
compound_key(a, b) ==
    LET a_bytes == to_bytes(a)
        b_bytes == to_bytes(b)
    IN  [i \in 1..KeyBytes |->
            IF i <= IdBytes THEN a_bytes[i] ELSE b_bytes[i - IdBytes]]

\* from_compound_key: the two identifiers of a compound key.
from_compound_key(compound) ==
    << from_bytes([i \in 1..IdBytes |-> compound[i]]),
       from_bytes([i \in 1..IdBytes |-> compound[IdBytes + i]]) >>

\* must_u8_16: the slice as a 16-byte array, or InternalError.
must_u8_16(slice) ==
    IF Len(slice) = KeyBytes THEN [res |-> "Ok", val |-> slice]
    ELSE [res |-> "InternalError", val |-> NoVal]

\* must_u8_8: the slice as an 8-byte array, or InternalError.
must_u8_8(slice) ==
    IF Len(slice) = IdBytes THEN [res |-> "Ok", val |-> slice]
    ELSE [res |-> "InternalError", val |-> NoVal]

\* --------------------------------------------------- store.rs: operations
\* Each operation is a function of the store it is called on (self) and its
\* arguments, to the store it leaves behind, its result and the value it
\* returns.

self == [ tag_id_names    |-> tag_id_names,
          tag_name_ids    |-> tag_name_ids,
          tag_items       |-> tag_items,
          item_tags       |-> item_tags,
          idgen           |-> idgen,
          idgen_persisted |-> idgen_persisted ]

\* No identifier: the payload of a result that carries none (an option as a
\* set: {} is None, {x} is Some(x)).
NoId == {}

Ret(s, res, val) == [self |-> s, res |-> res, val |-> val]

\* Db::generate_id: returns the counter and advances it; the counter is
\* written to disk when the returned value enters a new persist interval.
generate_id(s) ==
    LET ret == s.idgen
        necessary_persists ==
            (ret \div IdgenPersistInterval) * IdgenPersistInterval
    IN  Ret([s EXCEPT !.idgen = ret + 1,
                      !.idgen_persisted =
                          IF @ < necessary_persists
                          THEN necessary_persists ELSE @],
            "Ok", { ret })

\* id returning the counter without advancing it.
id_without_advance(s) == Ret(s, "Ok", { s.idgen })

\* Store::id.
id(s) == generate_id(s)

\* tag writing the reverse key with its identifiers in the forward order.
tag_same_order(s, item, t) ==
    LET s1 == [s  EXCEPT !.tag_items =
                   insert(@, compound_key(t, item), << >>)]
        s2 == [s1 EXCEPT !.item_tags =
                   insert(@, compound_key(t, item), << >>)]
    IN  Ret(s2, "Ok", NoId)

\* tag as a toggle: a pairing already present is removed.
tag_toggle(s, item, t) ==
    IF compound_key(t, item) \in DOMAIN s.tag_items
    THEN Ret([s EXCEPT !.tag_items = remove(@, compound_key(t, item)),
                       !.item_tags = remove(@, compound_key(item, t))],
             "Ok", NoId)
    ELSE Ret([s EXCEPT !.tag_items = insert(@, compound_key(t, item), << >>),
                       !.item_tags = insert(@, compound_key(item, t), << >>)],
             "Ok", NoId)

\* Store::tag.
tag(s, item, t) ==
    LET s1 == [s  EXCEPT !.tag_items =
                   insert(@, compound_key(t, item), << >>)]
        s2 == [s1 EXCEPT !.item_tags =
                   insert(@, compound_key(item, t), << >>)]
    IN  Ret(s2, "Ok", NoId)

\* untag without its second removal.
untag_forward_only(s, item, t) ==
    Ret([s EXCEPT !.tag_items = remove(@, compound_key(t, item))], "Ok", NoId)

\* untag dropping every pairing of the tag, whatever the item.
untag_every_item(s, item, t) ==
    Ret([s EXCEPT
            !.tag_items = [k \in { c \in DOMAIN @ :
                                    ~starts_with(c, to_bytes(t)) } |-> @[k]],
            !.item_tags = [k \in { c \in DOMAIN @ :
                                    from_compound_key(c)[2] # t } |-> @[k]]],
        "Ok", NoId)

\* Store::untag.
untag(s, item, t) ==
    LET s1 == [s  EXCEPT !.tag_items = remove(@, compound_key(t, item))]
        s2 == [s1 EXCEPT !.item_tags = remove(@, compound_key(item, t))]
    IN  Ret(s2, "Ok", NoId)

\* update_tag without its second insert.
update_tag_id_only(s, tid, name) ==
    Ret([s EXCEPT !.tag_id_names = insert(@, to_bytes(tid), name)],
        "Ok", { tid })

\* Store::update_tag.
update_tag(s, tid, name) ==
    LET s1 == [s  EXCEPT !.tag_id_names = insert(@, to_bytes(tid), name)]
        s2 == [s1 EXCEPT !.tag_name_ids = insert(@, name, to_bytes(tid))]
    IN  Ret(s2, "Ok", { tid })

\* tag_string creating a tag whether or not the name is cataloged.
tag_string_always_creates(s, item, tag_name) ==
    LET fresh   == id(s)
        t       == CHOOSE x \in fresh.val : TRUE
        updated == update_tag(fresh.self, t, tag_name)
    IN  tag(updated.self, item, t)

\* Store::tag_string.
tag_string(s, item, tag_name) ==
    LET found_tag == get(s.tag_name_ids, tag_name)
    IN  IF found_tag # {}
        THEN LET tag_vec == CHOOSE v \in found_tag : TRUE
                 arr     == must_u8_8(tag_vec)
             IN  IF arr.res # "Ok" THEN Ret(s, arr.res, NoId)
                 ELSE tag(s, item, from_bytes(arr.val))
        ELSE LET fresh   == id(s)
                 t       == CHOOSE x \in fresh.val : TRUE
                 updated == update_tag(fresh.self, t, tag_name)
             IN  tag(updated.self, item, t)

\* Store::tag_string creating a tag while sled fails one write: the failed-th
\* insert of the call (1 id to name, 2 name to id, 3 forward, 4 reverse)
\* returns Err and writes nothing, `?` turns it into StorageError and returns
\* it at once, and what the earlier inserts wrote stays.
tag_string_storage_error(s, item, tag_name, failed) ==
    LET fresh == id(s)
        t     == CHOOSE x \in fresh.val : TRUE
        s1    == [fresh.self EXCEPT
                     !.tag_id_names = insert(@, to_bytes(t), tag_name)]
        s2    == [s1 EXCEPT
                     !.tag_name_ids = insert(@, tag_name, to_bytes(t))]
        s3    == [s2 EXCEPT
                     !.tag_items = insert(@, compound_key(t, item), << >>)]
    IN  IF failed = 1 THEN Ret(fresh.self, "StorageError", NoId)
        ELSE IF failed = 2 THEN Ret(s1, "StorageError", NoId)
        ELSE IF failed = 3 THEN Ret(s2, "StorageError", NoId)
        ELSE Ret(s3, "StorageError", NoId)

\* Store::get_tag_id: None is {}, Some(id) is {id}.
get_tag_id(s, tag_name) ==
    LET found_tag == get(s.tag_name_ids, tag_name)
    IN  IF found_tag = {} THEN Ret(s, "Ok", {})
        ELSE LET arr == must_u8_8(CHOOSE v \in found_tag : TRUE)
             IN  IF arr.res # "Ok" THEN Ret(s, arr.res, {})
                 ELSE Ret(s, "Ok", { from_bytes(arr.val) })

\* remove_tag succeeding on an id that is not cataloged.
remove_tag_ok_when_absent(s, tid) ==
    LET removed == get(s.tag_id_names, to_bytes(tid))
        s1 == [s EXCEPT !.tag_id_names = remove(@, to_bytes(tid))]
    IN  IF removed = {} THEN Ret(s1, "Ok", NoId)
        ELSE LET old_name == CHOOSE v \in removed : TRUE
             IN  Ret([s1 EXCEPT !.tag_name_ids = remove(@, old_name)],
                     "Ok", NoId)

\* remove_tag without its second removal.
remove_tag_keeps_name(s, tid) ==
    LET removed == get(s.tag_id_names, to_bytes(tid))
        s1 == [s EXCEPT !.tag_id_names = remove(@, to_bytes(tid))]
    IN  IF removed = {} THEN Ret(s1, "NotFound", { tid })
        ELSE Ret(s1, "Ok", NoId)

\* remove_tag cascading into the indices: the pairings of the removed tag are
\* dropped with it.
remove_tag_cascade(s, tid) ==
    LET removed == get(s.tag_id_names, to_bytes(tid))
        s1 == [s EXCEPT !.tag_id_names = remove(@, to_bytes(tid))]
    IN  IF removed = {} THEN Ret(s1, "NotFound", { tid })
        ELSE LET old_name == CHOOSE v \in removed : TRUE
             IN  Ret([s1 EXCEPT
                        !.tag_name_ids = remove(@, old_name),
                        !.tag_items =
                            [k \in { c \in DOMAIN @ :
                                       from_compound_key(c)[1] # tid } |-> @[k]],
                        !.item_tags =
                            [k \in { c \in DOMAIN @ :
                                       from_compound_key(c)[2] # tid } |-> @[k]]],
                     "Ok", NoId)

\* remove_tag handing the removed id back to the allocator.
remove_tag_releases_id(s, tid) ==
    LET removed == get(s.tag_id_names, to_bytes(tid))
        s1 == [s EXCEPT !.tag_id_names = remove(@, to_bytes(tid))]
    IN  IF removed = {} THEN Ret(s1, "NotFound", { tid })
        ELSE LET old_name == CHOOSE v \in removed : TRUE
             IN  Ret([s1 EXCEPT !.tag_name_ids = remove(@, old_name),
                                !.idgen = tid],
                     "Ok", NoId)

\* Store::remove_tag.
remove_tag(s, tid) ==
    LET removed == get(s.tag_id_names, to_bytes(tid))
        s1 == [s EXCEPT !.tag_id_names = remove(@, to_bytes(tid))]
    IN  IF removed = {} THEN Ret(s1, "NotFound", { tid })
        ELSE LET old_name == CHOOSE v \in removed : TRUE
             IN  Ret([s1 EXCEPT !.tag_name_ids = remove(@, old_name)],
                     "Ok", NoId)

\* Store::get_item_tag_ids: the sequence the iterator yields, one Result per
\* scanned key.
get_item_tag_ids(s, item) ==
    LET item_tags_iter == scan_prefix(s.item_tags, to_bytes(item))
    IN  [n \in 1..Len(item_tags_iter) |->
            LET arr == must_u8_16(item_tags_iter[n])
            IN  IF arr.res # "Ok" THEN [res |-> arr.res, val |-> -1]
                ELSE [res |-> "Ok", val |-> from_compound_key(arr.val)[2]]]

\* get_tag_item_ids yielding the first identifier of each key.
get_tag_item_ids_first(s, tid) ==
    LET tag_items_iter == scan_prefix(s.tag_items, to_bytes(tid))
    IN  [n \in 1..Len(tag_items_iter) |->
            LET arr == must_u8_16(tag_items_iter[n])
            IN  IF arr.res # "Ok" THEN [res |-> arr.res, val |-> -1]
                ELSE [res |-> "Ok", val |-> from_compound_key(arr.val)[1]]]

\* Store::get_tag_item_ids.
get_tag_item_ids(s, tid) ==
    LET tag_items_iter == scan_prefix(s.tag_items, to_bytes(tid))
    IN  [n \in 1..Len(tag_items_iter) |->
            LET arr == must_u8_16(tag_items_iter[n])
            IN  IF arr.res # "Ok" THEN [res |-> arr.res, val |-> -1]
                ELSE [res |-> "Ok", val |-> from_compound_key(arr.val)[2]]]

\* std::str::from_utf8 on the bytes of a stored name.  Every byte of the
\* model's names is an ASCII byte, which is valid UTF-8 on its own; a byte
\* above 127 would need the continuation bytes no name of the model has.
from_utf8(bytes) ==
    IF \A i \in 1..Len(bytes) : bytes[i] < 128
    THEN [res |-> "Ok", val |-> bytes]
    ELSE [res |-> "Utf8Error", val |-> NoVal]

\* get_item_tags leaving out the tags whose id is not cataloged.
get_item_tags_skips(s, item) ==
    LET tags_iter == get_item_tag_ids(s, item)
        cataloged == SelectSeq(tags_iter,
                         LAMBDA tag_result :
                             get(s.tag_id_names, to_bytes(tag_result.val)) # {})
    IN  [n \in 1..Len(cataloged) |->
            LET tag_id == cataloged[n].val
            IN  [res |-> "Ok",
                 val |-> [id |-> tag_id,
                          name |-> s.tag_id_names[to_bytes(tag_id)]]]]

\* Store::get_item_tags: the sequence the iterator yields, one Result<Tag>
\* per element of get_item_tag_ids.
get_item_tags(s, item) ==
    LET tags_iter == get_item_tag_ids(s, item)
    IN  [n \in 1..Len(tags_iter) |->
            LET tag_result == tags_iter[n]
            IN  IF tag_result.res # "Ok"
                THEN [res |-> tag_result.res, val |-> NoVal]
                ELSE LET tag_id  == tag_result.val
                         tag_vec == get(s.tag_id_names, to_bytes(tag_id))
                     IN  IF tag_vec = {}
                         THEN [res |-> "InternalError", val |-> NoVal]
                         ELSE LET tag_name ==
                                      from_utf8(CHOOSE v \in tag_vec : TRUE)
                              IN  IF tag_name.res # "Ok"
                                  THEN [res |-> "InternalError", val |-> NoVal]
                                  ELSE [res |-> "Ok",
                                        val |-> [id   |-> tag_id,
                                                 name |-> tag_name.val]]]

\* Store::open / Store::from_sled on the files of a store opened before: the
\* four trees are as they were left, and sled resumes the identifier counter
\* two persist intervals past the value it last wrote to disk.
open(s) ==
    Ret([s EXCEPT !.idgen = s.idgen_persisted + 2 * IdgenPersistInterval],
        "Ok", NoId)

\* ----------------------------------------------------------------- actions

\* A writer with no call in flight.
Idle == [op |-> "idle", pc |-> "idle", item |-> 0, name |-> << >>, tag |-> {}]

Call(op, r) == [op |-> op, res |-> r.res]

\* Whether the index has room for one more pairing.
HasRoom == Cardinality(DOMAIN tag_items) < MaxPairs

\* The store becomes r.self and the call is recorded.
Commit(r, call) ==
    /\ tag_id_names'    = r.self.tag_id_names
    /\ tag_name_ids'    = r.self.tag_name_ids
    /\ tag_items'       = r.self.tag_items
    /\ item_tags'       = r.self.item_tags
    /\ idgen'           = r.self.idgen
    /\ idgen_persisted' = r.self.idgen_persisted
    /\ last'            = call
    /\ UNCHANGED << calls, overlapped, removed_tags >>

Init ==
    /\ tag_id_names    = << >>
    /\ tag_name_ids    = << >>
    /\ tag_items       = << >>
    /\ item_tags       = << >>
    /\ idgen           = 0
    /\ idgen_persisted = 0
    /\ returned        = {}
    /\ last            = [op |-> "open", res |-> "Ok"]
    /\ calls           = [w \in Writers |-> Idle]
    /\ overlapped      = {}
    /\ removed_tags    = {}

\* id() while the counter is below limit.
IdBelow(limit) ==
    /\ idgen < limit
    /\ LET r == id(self)
       IN  /\ Commit(r, Call("id", r))
           /\ returned' = returned \cup r.val

Id == IdBelow(MaxId)

TagString ==
    \E item \in Items, name \in Names :
        /\ HasRoom
        /\ (get(tag_name_ids, name) = {} => idgen < MaxId)
        /\ LET r == tag_string(self, item, name)
           IN  /\ Commit(r, Call("tag_string", r))
               /\ returned' = returned \cup ((0..(r.self.idgen - 1)) \ (0..(idgen - 1)))

Tag ==
    \E item \in Items, t \in Tags :
        LET r == tag(self, item, t)
        IN  /\ HasRoom
            /\ Commit(r, Call("tag", r))
            /\ UNCHANGED returned

Untag ==
    \E item \in Items, t \in Tags :
        LET r == untag(self, item, t)
        IN  /\ Commit(r, Call("untag", r))
            /\ UNCHANGED returned

UpdateTag ==
    \E t \in UpdatedTags, name \in Names :
        LET r == update_tag(self, t, name)
        IN  /\ Commit(r, Call("update_tag", r))
            /\ UNCHANGED returned

\* remove_tag(t) for a t among ids.
RemoveTagAmong(ids) ==
    \E t \in ids :
        LET r == remove_tag(self, t)
        IN  /\ Commit(r, Call("remove_tag", r))
            /\ UNCHANGED returned

RemoveTag == RemoveTagAmong(Tags)

RemoveAnyTag == RemoveTagAmong(RemovedTags)

Open ==
    /\ idgen_persisted + 2 * IdgenPersistInterval <= MaxDurableId
    /\ LET r == open(self)
       IN  /\ Commit(r, Call("open", r))
           /\ UNCHANGED returned

\* The calls of the catalog bijection and the symmetry contracts.
NextCore == Id \/ TagString \/ Tag \/ Untag \/ RemoveAnyTag

SpecCore == Init /\ [][NextCore]_vars

\* Every call of the store's public interface, and reopening the store.
Next == Id \/ TagString \/ Tag \/ Untag \/ UpdateTag \/ RemoveTag

Spec == Init /\ [][Next]_vars

\* The allocator over the durable lifetime of a store: identifiers are drawn,
\* and the store is closed (or the process dies) and opened again.
IdDurable == IdBelow(MaxDurableId)

NextAlloc == IdDurable \/ Open

SpecAlloc == Init /\ [][NextAlloc]_vars

\* --------------------------------------------- calls one tree operation at
\* a time.  sled serialises the operations of one tree, so each get, insert
\* and remove of a call is one step, and the steps of the calls in flight
\* interleave.

\* The first write of tag going to the reverse index.
tag_reverse_first(s, item, t) ==
    [s EXCEPT !.item_tags = insert(@, compound_key(item, t), << >>)]

\* self.tag_items.insert(compound_key(tag, item), &[]) of tag.
tag_items_insert(s, item, t) ==
    [s EXCEPT !.tag_items = insert(@, compound_key(t, item), << >>)]

\* self.item_tags.insert(compound_key(item, tag), &[]) of tag.
item_tags_insert(s, item, t) ==
    [s EXCEPT !.item_tags = insert(@, compound_key(item, t), << >>)]

\* self.tag_items.remove(compound_key(tag, item)) of untag.
tag_items_remove(s, item, t) ==
    [s EXCEPT !.tag_items = remove(@, compound_key(t, item))]

\* The second write of untag leaving the reverse index as it is.
item_tags_remove_skipped(s, item, t) == s

\* self.item_tags.remove(compound_key(item, tag)) of untag.
item_tags_remove(s, item, t) ==
    [s EXCEPT !.item_tags = remove(@, compound_key(item, t))]

\* self.tag_id_names.insert(&id.to_bytes(), name.as_bytes()) of update_tag.
tag_id_names_insert(s, tid, name) ==
    [s EXCEPT !.tag_id_names = insert(@, to_bytes(tid), name)]

\* The second write of update_tag leaving the name-to-id tree as it is.
tag_name_ids_insert_skipped(s, tid, name) == s

\* self.tag_name_ids.insert(name.as_bytes(), &id.to_bytes()) of update_tag.
tag_name_ids_insert(s, tid, name) ==
    [s EXCEPT !.tag_name_ids = insert(@, name, to_bytes(tid))]

\* The store becomes s.
SetStore(s) ==
    /\ tag_id_names'    = s.tag_id_names
    /\ tag_name_ids'    = s.tag_name_ids
    /\ tag_items'       = s.tag_items
    /\ item_tags'       = s.item_tags
    /\ idgen'           = s.idgen
    /\ idgen_persisted' = s.idgen_persisted

\* The call of writer w moves to position pc.
Goto(w, pc) == calls' = [calls EXCEPT ![w].pc = pc]

\* The call of writer w returns res.
Return(w, res) ==
    /\ calls' = [calls EXCEPT ![w] = Idle]
    /\ last'  = [op |-> calls[w].op, res |-> res]

\* The tag identifier the call of writer w works on.
TagOf(w) == CHOOSE t \in calls[w].tag : TRUE

\* The writers of W other than w whose call in flight is op on (item, t).
Meeting(W, w, op, item, t) ==
    { v \in W \ { w } : /\ calls[v].op = op
                        /\ calls[v].item = item
                        /\ calls[v].tag = { t } }

\* A writer calls tag(item, t).
BeginTag(W, I) ==
    \E w \in W, item \in I, t \in Tags :
        /\ calls[w] = Idle
        /\ calls' = [calls EXCEPT ![w] =
                        [op |-> "tag", pc |-> "tag_items_insert",
                         item |-> item, name |-> << >>, tag |-> { t }]]
        /\ overlapped' = overlapped \cup
               { << item, t >> : v \in Meeting(W, w, "untag", item, t) }
        /\ SetStore(self)
        /\ UNCHANGED << returned, last, removed_tags >>

\* A writer calls untag(item, t).
BeginUntag(W, I) ==
    \E w \in W, item \in I, t \in Tags :
        /\ calls[w] = Idle
        /\ calls' = [calls EXCEPT ![w] =
                        [op |-> "untag", pc |-> "tag_items_remove",
                         item |-> item, name |-> << >>, tag |-> { t }]]
        /\ overlapped' = overlapped \cup
               { << item, t >> : v \in Meeting(W, w, "tag", item, t) }
        /\ SetStore(self)
        /\ UNCHANGED << returned, last, removed_tags >>

\* tag, first write: the forward key.
TagForward(W) ==
    \E w \in W :
        /\ calls[w].pc = "tag_items_insert"
        /\ SetStore(tag_items_insert(self, calls[w].item, TagOf(w)))
        /\ Goto(w, "item_tags_insert")
        /\ UNCHANGED << returned, last, overlapped, removed_tags >>

\* tag, second write: the reverse key; the call returns Ok(()).
TagReverse(W) ==
    \E w \in W :
        /\ calls[w].pc = "item_tags_insert"
        /\ SetStore(item_tags_insert(self, calls[w].item, TagOf(w)))
        /\ Return(w, "Ok")
        /\ UNCHANGED << returned, overlapped, removed_tags >>

\* untag, first write: the forward key.
UntagForward(W) ==
    \E w \in W :
        /\ calls[w].pc = "tag_items_remove"
        /\ SetStore(tag_items_remove(self, calls[w].item, TagOf(w)))
        /\ Goto(w, "item_tags_remove")
        /\ UNCHANGED << returned, last, overlapped, removed_tags >>

\* untag, second write: the reverse key; the call returns Ok(()).
UntagReverse(W) ==
    \E w \in W :
        /\ calls[w].pc = "item_tags_remove"
        /\ SetStore(item_tags_remove(self, calls[w].item, TagOf(w)))
        /\ Return(w, "Ok")
        /\ UNCHANGED << returned, overlapped, removed_tags >>

\* One writer, tag and untag: the store between the two writes of a call.
NextWriter ==
    \/ BeginTag(Writer, Items) \/ TagForward(Writer) \/ TagReverse(Writer)
    \/ BeginUntag(Writer, Items) \/ UntagForward(Writer) \/ UntagReverse(Writer)

SpecWriter == Init /\ [][NextWriter]_vars

\* Two writers, tag and untag, their writes interleaved.
NextTagUntag ==
    \/ BeginTag(Writers, RacedItems) \/ TagForward(Writers) \/ TagReverse(Writers)
    \/ BeginUntag(Writers, RacedItems) \/ UntagForward(Writers) \/ UntagReverse(Writers)

SpecTagUntag == Init /\ [][NextTagUntag]_vars

\* A writer calls tag_string(item, name), while the allocator can still serve
\* every call that may yet ask it for an identifier.
BeginTagString(W, I) ==
    \E w \in W, item \in I, name \in Names :
        /\ calls[w] = Idle
        /\ idgen + Cardinality({ v \in W : calls[v].pc \in
               { "tag_name_ids_get", "generate_id" } }) < MaxId
        /\ calls' = [calls EXCEPT ![w] =
                        [op |-> "tag_string", pc |-> "tag_name_ids_get",
                         item |-> item, name |-> name, tag |-> {}]]
        /\ overlapped' = overlapped \cup
               { name : v \in { u \in W \ { w } :
                                  /\ calls[u].op = "tag_string"
                                  /\ calls[u].name = name
                                  /\ get(tag_name_ids, name) = {} } }
        /\ SetStore(self)
        /\ UNCHANGED << returned, last, removed_tags >>

\* tag_string: self.tag_name_ids.get(tag_name.as_bytes()), and the branch on
\* what it found.
GetName(W) ==
    \E w \in W :
        /\ calls[w].pc = "tag_name_ids_get"
        /\ LET found_tag == get(tag_name_ids, calls[w].name)
           IN  IF found_tag = {}
               THEN /\ Goto(w, "generate_id")
                    /\ UNCHANGED last
               ELSE LET arr == must_u8_8(CHOOSE v \in found_tag : TRUE)
                    IN  IF arr.res # "Ok"
                        THEN Return(w, arr.res)
                        ELSE /\ calls' = [calls EXCEPT
                                    ![w].tag = { from_bytes(arr.val) },
                                    ![w].pc  = "tag_items_insert"]
                             /\ UNCHANGED last
        /\ SetStore(self)
        /\ UNCHANGED << returned, overlapped, removed_tags >>

\* tag_string: TagID::from(self.id()?).
GenerateId(W) ==
    \E w \in W :
        /\ calls[w].pc = "generate_id"
        /\ LET fresh == id(self)
           IN  /\ SetStore(fresh.self)
               /\ returned' = returned \cup fresh.val
               /\ calls' = [calls EXCEPT ![w].tag = fresh.val,
                                         ![w].pc  = "tag_id_names_insert"]
        /\ UNCHANGED << last, overlapped, removed_tags >>

\* update_tag, first write: id to name.
UpdateIdName(W) ==
    \E w \in W :
        /\ calls[w].pc = "tag_id_names_insert"
        /\ SetStore(tag_id_names_insert(self, TagOf(w), calls[w].name))
        /\ Goto(w, "tag_name_ids_insert")
        /\ UNCHANGED << returned, last, overlapped, removed_tags >>

\* update_tag, second write: name to id; tag_string goes on to tag.
UpdateNameId(W) ==
    \E w \in W :
        /\ calls[w].pc = "tag_name_ids_insert"
        /\ SetStore(tag_name_ids_insert(self, TagOf(w), calls[w].name))
        /\ Goto(w, "tag_items_insert")
        /\ UNCHANGED << returned, last, overlapped, removed_tags >>

\* Two writers, tag_string, their reads and writes interleaved.
NextTagString ==
    \/ BeginTagString(Writers, RacedItems) \/ GetName(Writers)
    \/ GenerateId(Writers) \/ UpdateIdName(Writers) \/ UpdateNameId(Writers)
    \/ TagForward(Writers) \/ TagReverse(Writers)

SpecTagString == Init /\ [][NextTagString]_vars

\* ------------------------------------------- the lifecycle of identifiers:
\* every tag identifier handed to the store is one the store gave out
\* (main.rs takes each item from id() and each tag from tag_string), and
\* what remove_tag removes is remembered.

\* tag(item, t) with an identifier id() has returned.
TagReturned ==
    \E item \in Items, t \in returned :
        LET r == tag(self, item, t)
        IN  /\ HasRoom
            /\ Commit(r, Call("tag", r))
            /\ UNCHANGED returned

\* untag(item, t) with an identifier id() has returned.
UntagReturned ==
    \E item \in Items, t \in returned :
        LET r == untag(self, item, t)
        IN  /\ Commit(r, Call("untag", r))
            /\ UNCHANGED returned

\* remove_tag(t), remembering the id and the name it removes.
RemoveTagRecorded ==
    \E t \in RemovedTags :
        LET r == remove_tag(self, t)
        IN  /\ SetStore(r.self)
            /\ last' = Call("remove_tag", r)
            /\ removed_tags' = removed_tags \cup
                   IF r.res = "Ok"
                   THEN { << t, n >> : n \in get(tag_id_names, to_bytes(t)) }
                   ELSE {}
            /\ UNCHANGED << returned, calls, overlapped >>

NextLifecycle ==
    Id \/ TagString \/ TagReturned \/ UntagReturned \/ RemoveTagRecorded

SpecLifecycle == Init /\ [][NextLifecycle]_vars

\* ------------------------------------------------------------ properties

\* Every identifier the calls of the model can put in a tree.
IdUniverse == Items \cup Tags \cup UpdatedTags \cup (0..MaxId)

\* Whether the sequence an iterator yields holds Ok(x).
Contains(yielded, x) ==
    \E n \in 1..Len(yielded) : yielded[n].res = "Ok" /\ yielded[n].val = x

\* C1. Round trip: from every reachable state, tag_string(I, N) succeeds with
\* N cataloged under some id T, T among the tags of I and I among the items
\* of T; and after untag(I, T) on the store it leaves, neither holds.
RoundTrip ==
    \A item \in Items, name \in Names :
        LET r     == tag_string(self, item, name)
            found == get_tag_id(r.self, name)
        IN  r.res = "Ok" =>
            /\ found.res = "Ok"
            /\ found.val # {}
            /\ \A T \in found.val :
                /\ Contains(get_item_tag_ids(r.self, item), T)
                /\ Contains(get_tag_item_ids(r.self, T), item)
                /\ LET u == untag(r.self, item, T)
                   IN  /\ u.res = "Ok"
                       /\ ~Contains(get_item_tag_ids(u.self, item), T)
                       /\ ~Contains(get_tag_item_ids(u.self, T), item)

\* A tag_string call has completed and left a cataloged tag on an item.
RoundTripWitness ==
    /\ last = [op |-> "tag_string", res |-> "Ok"]
    /\ \E item \in Items, name \in Names :
        \E T \in get_tag_id(self, name).val :
            /\ Contains(get_item_tag_ids(self, item), T)
            /\ Contains(get_tag_item_ids(self, T), item)

\* C2. Catalog bijection: after any sequence of id, tag_string, tag, untag
\* and remove_tag calls, tag_name_ids[N] = X exactly when tag_id_names[X] = N.
CatalogBijection ==
    /\ \A n \in DOMAIN tag_name_ids :
        /\ tag_name_ids[n] \in DOMAIN tag_id_names
        /\ tag_id_names[tag_name_ids[n]] = n
    /\ \A x \in DOMAIN tag_id_names :
        /\ tag_id_names[x] \in DOMAIN tag_name_ids
        /\ tag_name_ids[tag_id_names[x]] = x

\* A tag has been removed from a catalog that still holds another one.
CatalogBijectionWitness ==
    /\ last = [op |-> "remove_tag", res |-> "Ok"]
    /\ Cardinality(DOMAIN tag_id_names) = 1
    /\ Cardinality(DOMAIN tag_name_ids) = 1

\* C3. Symmetry at rest: after any sequence of completed tag, untag,
\* tag_string and remove_tag calls, the forward key T||I is in tag_items
\* exactly when the reverse key I||T is in item_tags, and I is among the
\* items of T exactly when T is among the tags of I.
SymmetryAtRest ==
    /\ \A k \in DOMAIN tag_items :
        LET p == from_compound_key(k)
        IN  compound_key(p[2], p[1]) \in DOMAIN item_tags
    /\ \A k \in DOMAIN item_tags :
        LET p == from_compound_key(k)
        IN  compound_key(p[2], p[1]) \in DOMAIN tag_items
    /\ \A I \in IdUniverse, T \in IdUniverse :
        /\ compound_key(T, I) \in DOMAIN tag_items
            <=> compound_key(I, T) \in DOMAIN item_tags
        /\ Contains(get_tag_item_ids(self, T), I)
            <=> Contains(get_item_tag_ids(self, I), T)

\* A pairing has been removed from an index that still holds another one.
SymmetryAtRestWitness ==
    /\ last = [op |-> "untag", res |-> "Ok"]
    /\ Cardinality(DOMAIN tag_items) = 1
    /\ Cardinality(DOMAIN item_tags) = 1

AllOk(yielded) == \A n \in 1..Len(yielded) : yielded[n].res = "Ok"

\* C4. Prefix-scan exactness: get_tag_item_ids(T) yields exactly the items I
\* whose key T||I is in tag_items, each once, and no item stored under
\* another tag id; get_item_tag_ids(I) yields exactly the tags T whose key
\* I||T is in item_tags, each once.
PrefixScanExact ==
    /\ \A T \in IdUniverse :
        LET yielded == get_tag_item_ids(self, T)
            stored  == { I \in IdUniverse :
                            compound_key(T, I) \in DOMAIN tag_items }
        IN  /\ AllOk(yielded)
            /\ { yielded[n].val : n \in 1..Len(yielded) } = stored
            /\ Len(yielded) = Cardinality(stored)
    /\ \A I \in IdUniverse :
        LET yielded == get_item_tag_ids(self, I)
            stored  == { T \in IdUniverse :
                            compound_key(I, T) \in DOMAIN item_tags }
        IN  /\ AllOk(yielded)
            /\ { yielded[n].val : n \in 1..Len(yielded) } = stored
            /\ Len(yielded) = Cardinality(stored)

\* Tag 1 has an item while tag 0 (T-1) and the maximum tag id have items too.
PrefixScanExactWitness ==
    /\ Len(get_tag_item_ids(self, 1)) = 1
    /\ Len(get_tag_item_ids(self, 0)) = 1
    /\ Len(get_tag_item_ids(self, MaxU64)) = 1

\* Whether the identifiers an iterator yields are strictly ascending.
Ascending(yielded) ==
    \A m, n \in 1..Len(yielded) : m < n => yielded[m].val < yielded[n].val

\* C5. Ordering: the items get_tag_item_ids(T) yields are strictly ascending
\* in numeric id, and so are the tags get_item_tag_ids(I) yields, whatever
\* the order the pairings were inserted in.
Ordering ==
    /\ \A T \in IdUniverse : Ascending(get_tag_item_ids(self, T))
    /\ \A I \in IdUniverse : Ascending(get_item_tag_ids(self, I))

\* A tag call has left a tag with two items and an item with two tags.
OrderingWitness ==
    /\ last.op = "tag"
    /\ \E T \in IdUniverse : Len(get_tag_item_ids(self, T)) = 2
    /\ \E I \in IdUniverse : Len(get_item_tag_ids(self, I)) = 2

\* C6. Idempotence of tag: from every reachable state, tag(I, T) called twice
\* leaves the four collections as one call does, with the forward key T||I
\* and the reverse key I||T each present once with the empty value.
TagIdempotent ==
    \A item \in Items, T \in IdUniverse :
        LET once  == tag(self, item, T)
            twice == tag(once.self, item, T)
        IN  /\ once.res = "Ok" /\ twice.res = "Ok"
            /\ twice.self = once.self
            /\ get(once.self.tag_items, compound_key(T, item)) = { << >> }
            /\ get(once.self.item_tags, compound_key(item, T)) = { << >> }
            /\ Cardinality(DOMAIN once.self.tag_items)
                   = Cardinality(DOMAIN tag_items \cup { compound_key(T, item) })
            /\ Cardinality(DOMAIN once.self.item_tags)
                   = Cardinality(DOMAIN item_tags \cup { compound_key(item, T) })

\* A tag call has completed on a pairing that is in both indices.
TagIdempotentWitness ==
    /\ last = [op |-> "tag", res |-> "Ok"]
    /\ \E item \in Items, T \in Tags :
        /\ tag(self, item, T).self = self
        /\ compound_key(T, item) \in DOMAIN tag_items

\* The tree differs from old at most under key, where it holds value.
OnlyAdds(tree, old, key, value) ==
    /\ DOMAIN tree = DOMAIN old \cup { key }
    /\ tree[key] = value
    /\ \A k \in DOMAIN old \ { key } : tree[k] = old[k]

\* C7. Get-or-create: tag_string(I, N) on a cataloged name uses the stored id,
\* writes no catalog entry and allocates no identifier; on an uncataloged
\* name it allocates exactly one new identifier X, writes tag_id_names[X] = N
\* and tag_name_ids[N] = X, and indexes I under X.
GetOrCreate ==
    \A item \in Items, name \in Names :
        LET r      == tag_string(self, item, name)
            stored == get_tag_id(self, name).val
            after  == get_tag_id(r.self, name).val
        IN  /\ r.res = "Ok"
            /\ \E X \in after :
                /\ OnlyAdds(r.self.tag_items, tag_items,
                            compound_key(X, item), << >>)
                /\ OnlyAdds(r.self.item_tags, item_tags,
                            compound_key(item, X), << >>)
                /\ IF stored # {}
                   THEN /\ after = stored
                        /\ r.self.tag_id_names = tag_id_names
                        /\ r.self.tag_name_ids = tag_name_ids
                        /\ r.self.idgen = idgen
                   ELSE /\ X \notin returned
                        /\ r.self.idgen = idgen + 1
                        /\ OnlyAdds(r.self.tag_id_names, tag_id_names,
                                    to_bytes(X), name)
                        /\ OnlyAdds(r.self.tag_name_ids, tag_name_ids,
                                    name, to_bytes(X))

\* A second item has been tagged by name with the only tag ever created.
GetOrCreateWitness ==
    /\ last = [op |-> "tag_string", res |-> "Ok"]
    /\ returned = { 0 }
    /\ \E name \in Names :
        /\ get_tag_id(self, name).val = { 0 }
        /\ Len(get_tag_item_ids(self, 0)) = 2

\* C8. Repeated tag_string: from every reachable state, a second
\* tag_string(I, N) right after a successful first one leaves the four
\* collections and the identifier counter as the first call left them.
RepeatedTagString ==
    \A item \in Items, name \in Names :
        LET first  == tag_string(self, item, name)
            second == tag_string(first.self, item, name)
        IN  first.res = "Ok" =>
                /\ second.res = "Ok"
                /\ second.self = first.self

\* A tag_string call has completed, and calling it again changes nothing.
RepeatedTagStringWitness ==
    /\ last = [op |-> "tag_string", res |-> "Ok"]
    /\ idgen = MaxId
    /\ \E item \in Items, name \in Names :
        /\ get_tag_id(self, name).val # {}
        /\ tag_string(self, item, name).self = self

\* C9. Allocator monotonicity: in every state of the durable lifetime of a
\* store, reopenings included, the value id() returns next is greater than
\* every value id() has returned, so none is returned twice.
AllocatorMonotonic ==
    LET r == id(self)
    IN  /\ r.res = "Ok"
        /\ \A x \in r.val : \A y \in returned : y < x

\* id() has returned values before and after a reopening that skipped some.
AllocatorMonotonicWitness ==
    /\ last = [op |-> "id", res |-> "Ok"]
    /\ 0 \in returned
    /\ \E x \in returned :
        /\ x >= 2 * IdgenPersistInterval
        /\ x - 1 \notin returned

\* C10. remove_tag on an uncataloged id: for every id X with no entry in
\* tag_id_names, remove_tag(X) returns NotFound carrying X and leaves the
\* store as it was.
RemoveTagNotFound ==
    \A X \in IdUniverse :
        get(tag_id_names, to_bytes(X)) = {} =>
            LET r == remove_tag(self, X)
            IN  /\ r.res = "NotFound"
                /\ r.val = { X }
                /\ r.self = self

\* remove_tag has failed with NotFound on a store whose catalog and indices
\* are not empty.
RemoveTagNotFoundWitness ==
    /\ last = [op |-> "remove_tag", res |-> "NotFound"]
    /\ DOMAIN tag_id_names # {}
    /\ DOMAIN tag_name_ids # {}
    /\ DOMAIN tag_items # {}

\* Whether the catalog of the store s is a bijection between ids and names.
Bijective(s) ==
    /\ \A n \in DOMAIN s.tag_name_ids :
        /\ s.tag_name_ids[n] \in DOMAIN s.tag_id_names
        /\ s.tag_id_names[s.tag_name_ids[n]] = n
    /\ \A x \in DOMAIN s.tag_id_names :
        /\ s.tag_id_names[x] \in DOMAIN s.tag_name_ids
        /\ s.tag_name_ids[s.tag_id_names[x]] = x

\* C11. remove_tag on a cataloged id: where the catalog is a bijection and
\* tag_id_names[X] = N, remove_tag(X) succeeds, and afterwards tag_id_names
\* has no entry for X, get_tag_id(N) returns None and every other entry of
\* the catalog is as it was.
RemoveTagCataloged ==
    \A X \in IdUniverse :
        \A N \in get(tag_id_names, to_bytes(X)) :
            Bijective(self) =>
                LET r     == remove_tag(self, X)
                    found == get_tag_id(r.self, N)
                IN  /\ r.res = "Ok"
                    /\ get(r.self.tag_id_names, to_bytes(X)) = {}
                    /\ found.res = "Ok" /\ found.val = {}
                    /\ DOMAIN r.self.tag_id_names
                           = DOMAIN tag_id_names \ { to_bytes(X) }
                    /\ \A x \in DOMAIN r.self.tag_id_names :
                           r.self.tag_id_names[x] = tag_id_names[x]
                    /\ DOMAIN r.self.tag_name_ids = DOMAIN tag_name_ids \ { N }
                    /\ \A n \in DOMAIN r.self.tag_name_ids :
                           r.self.tag_name_ids[n] = tag_name_ids[n]

\* Every tag the allocator could name has been created and removed again.
RemoveTagCatalogedWitness ==
    /\ last = [op |-> "remove_tag", res |-> "Ok"]
    /\ idgen = MaxId
    /\ DOMAIN tag_id_names = {}
    /\ DOMAIN tag_name_ids = {}

\* C12. Index frame: remove_tag, update_tag, id and get_tag_id leave tag_items
\* and item_tags as they were (the query iterators only read the store they
\* are given), so after remove_tag(T) every forward and reverse entry that
\* referenced T is still present and the scans of T yield what they did.
IndexFrame ==
    /\ id(self).self.tag_items = tag_items
    /\ id(self).self.item_tags = item_tags
    /\ \A N \in Names : get_tag_id(self, N).self = self
    /\ \A T \in IdUniverse :
        /\ \A N \in Names :
            LET u == update_tag(self, T, N)
            IN  /\ u.self.tag_items = tag_items
                /\ u.self.item_tags = item_tags
        /\ LET r == remove_tag(self, T)
           IN  /\ r.self.tag_items = tag_items
               /\ r.self.item_tags = item_tags
               /\ get_tag_item_ids(r.self, T) = get_tag_item_ids(self, T)
               /\ \A I \in IdUniverse :
                   /\ compound_key(T, I) \in DOMAIN tag_items
                       => compound_key(T, I) \in DOMAIN r.self.tag_items
                   /\ compound_key(I, T) \in DOMAIN item_tags
                       => compound_key(I, T) \in DOMAIN r.self.item_tags
                   /\ get_item_tag_ids(r.self, I) = get_item_tag_ids(self, I)

\* A tag the allocator named has been removed from the catalog while two
\* items still carry it.
IndexFrameWitness ==
    /\ last = [op |-> "remove_tag", res |-> "Ok"]
    /\ \E T \in returned :
        /\ get(tag_id_names, to_bytes(T)) = {}
        /\ Len(get_tag_item_ids(self, T)) = 2
        /\ \A I \in Items : Contains(get_item_tag_ids(self, I), T)

\* C13. Resolved join: get_item_tags(I) yields one element per element of
\* get_item_tag_ids(I), in the same order: Ok(Tag) with the id and its name
\* in tag_id_names where the id is cataloged, InternalError where it is not;
\* an uncataloged id is neither skipped nor the end of the sequence.
ResolvedJoin ==
    \A I \in IdUniverse :
        LET ids  == get_item_tag_ids(self, I)
            tags == get_item_tags(self, I)
        IN  /\ Len(tags) = Len(ids)
            /\ \A n \in 1..Len(ids) :
                ids[n].res = "Ok" =>
                    LET cataloged == get(tag_id_names, to_bytes(ids[n].val))
                    IN  IF cataloged = {}
                        THEN tags[n].res = "InternalError"
                        ELSE /\ tags[n].res = "Ok"
                             /\ tags[n].val.id = ids[n].val
                             /\ { tags[n].val.name } = cataloged

\* After a remove_tag an item carries a removed tag followed by a cataloged
\* one: its join yields InternalError and then a Tag.
ResolvedJoinWitness ==
    /\ last = [op |-> "remove_tag", res |-> "Ok"]
    /\ \E I \in Items :
        LET tags == get_item_tags(self, I)
        IN  /\ Len(tags) = 2
            /\ tags[1].res = "InternalError"
            /\ tags[2].res = "Ok"

\* C14. untag of an absent pairing: where neither T||I is in tag_items nor
\* I||T in item_tags, untag(I, T) returns Ok and leaves the store as it was;
\* and untag(I, T) never removes an entry of another pair nor touches the
\* catalog.
UntagAbsent ==
    \A I \in IdUniverse, T \in IdUniverse :
        LET r == untag(self, I, T)
        IN  /\ (/\ compound_key(T, I) \notin DOMAIN tag_items
                /\ compound_key(I, T) \notin DOMAIN item_tags)
                   => r.res = "Ok" /\ r.self = self
            /\ DOMAIN tag_items \ { compound_key(T, I) }
                   \subseteq DOMAIN r.self.tag_items
            /\ DOMAIN item_tags \ { compound_key(I, T) }
                   \subseteq DOMAIN r.self.item_tags
            /\ r.self.tag_id_names = tag_id_names
            /\ r.self.tag_name_ids = tag_name_ids

\* An untag call has completed and the index is still full: the pairing it
\* named was not there.
UntagAbsentWitness ==
    /\ last = [op |-> "untag", res |-> "Ok"]
    /\ Cardinality(DOMAIN tag_items) = MaxPairs
    /\ Cardinality(DOMAIN item_tags) = MaxPairs

\* The pairs (I, T) of which one index holds the key and the other does not.
Asymmetric ==
    { p \in IdUniverse \X IdUniverse :
        (compound_key(p[2], p[1]) \in DOMAIN tag_items)
            # (compound_key(p[1], p[2]) \in DOMAIN item_tags) }

\* No call is in flight.
AtRest == \A w \in Writers : calls[w] = Idle

InconsistencyWindow ==
    /\ Cardinality(Asymmetric) <= 1
    /\ \A p \in Asymmetric :
        \E w \in Writer :
            /\ calls[w].item = p[1]
            /\ calls[w].tag = { p[2] }
            /\ \/ /\ calls[w].op = "tag"
                  /\ compound_key(p[2], p[1]) \in DOMAIN tag_items
                  /\ compound_key(p[1], p[2]) \notin DOMAIN item_tags
               \/ /\ calls[w].op = "untag"
                  /\ compound_key(p[2], p[1]) \notin DOMAIN tag_items
                  /\ compound_key(p[1], p[2]) \in DOMAIN item_tags

\* Between the two writes of an untag: its pair has the reverse key only,
\* and two other pairs have both keys.
InconsistencyWindowWitness ==
    /\ calls["w1"].op = "untag"
    /\ calls["w1"].pc = "item_tags_remove"
    /\ Asymmetric = { << calls["w1"].item, TagOf("w1") >> }
    /\ Cardinality(DOMAIN tag_items) = 2
    /\ Cardinality(DOMAIN item_tags) = 3

\* The tag ids cataloged in tag_id_names with the name N.
IdsNamed(N) ==
    { from_bytes(x) : x \in { k \in DOMAIN tag_id_names : tag_id_names[k] = N } }

UpdateTagBijection ==
    \A X \in IdUniverse, N \in Names :
        Bijective(self) => Bijective(update_tag(self, X, N).self)

\* The ids cataloged in the store s with the name N.
IdsNamedIn(s, N) == { k \in DOMAIN s.tag_id_names : s.tag_id_names[k] = N }

\* C18. Failure between catalog writes: where the catalog is a bijection and
\* N is not cataloged, a tag_string(I, N) whose id-to-name, name-to-id,
\* forward or reverse insert fails returns StorageError and leaves the
\* catalog a bijection, and a later tag_string for N leaves at most one id
\* cataloged with N.
FailureKeepsBijection ==
    \A I \in Items, N \in Names, failed \in 1..4 :
        (Bijective(self) /\ get(tag_name_ids, N) = {}) =>
            LET r     == tag_string_storage_error(self, I, N, failed)
                later == tag_string(r.self, I, N)
            IN  /\ r.res = "StorageError"
                /\ Bijective(r.self)
                /\ Cardinality(IdsNamedIn(later.self, N)) <= 1

====
